---- MODULE Spec2Model ----
(***************************************************************************)
(* A model of prime_generator (src/src/main.rs): the parallel scan of an   *)
(* integer range for primes, the lock-protected buffer temp_storage with   *)
(* its flush at FLUSH_THRESHOLD, the CSV file the flushes append to, and   *)
(* the pure functions is_prime and calculate_powers.                       *)
(*                                                                         *)
(* Thread 0 is main; threads 1..thread_count are the rayon pool's workers. *)
(* rayon's splitting of the range is adaptive, so the model lets any idle  *)
(* worker take any candidate that is left: every schedule rayon can        *)
(* produce is one of the model's.                                          *)
(***************************************************************************)
EXTENDS Integers, Sequences, FiniteSets, TLC

\* ------------------------------------------------------------------ bounds
\* Largest value of --start / --end (or of the fetched default range).
MaxN == 7
\* Largest value of --cpus and of num_cpus::get().
MaxCpus == 3
\* Largest argument the pure functions are applied to in PureSpec.
MaxArg == 127
\* Largest value the two branches of is_prime are compared on in CrossSpec.
MaxCross == 10000
\* main.rs:38 sets 10000; the model scales the threshold down so that the
\* ranges within MaxN cross it (the flush protocol only compares the
\* buffer length against it).
FLUSH_THRESHOLD == 2

\* ------------------------------------------------------------------ values
Main == 0
NoThread == -1
\* the mutex after a thread panicked while holding its guard
Poisoned == -2
\* an option that was not given on the command line
NoArg == -1
\* an option whose text does not parse as an unsigned integer
BadArg == -2
\* Option and Result: None (or Err) is the empty sequence, Some(x) is <<x>>
None == <<>>
Some(x) == <<x>>
Unwrap(o) == o[1]
\* a worker that holds no candidate
NoCand == -1

Threads == 0..MaxCpus
Range(s, e) == {n \in 0..MaxN : s <= n /\ n <= e}

\* ------------------------------------------------------------------ text
\* Text is a sequence of one-character strings.
DigitChars == <<"0", "1", "2", "3", "4", "5", "6", "7", "8", "9">>
IsDigit(c) == \E d \in 1..10 : DigitChars[d] = c
DigitValue(c) == (CHOOSE d \in 1..10 : DigitChars[d] = c) - 1

RECURSIVE to_str_radix_10(_)
\* BigInt::to_str_radix(10), and the decimal rendering serde gives a u128
to_str_radix_10(n) ==
    IF n < 10 THEN <<DigitChars[n + 1]>>
    ELSE to_str_radix_10(n \div 10) \o <<DigitChars[(n % 10) + 1]>>

RECURSIVE parse_u128(_)
\* str::parse::<u128> as the csv reader applies it to a field: None unless
\* the field is a non-empty run of decimal digits
parse_u128(s) ==
    IF Len(s) = 0 \/ ~IsDigit(s[Len(s)]) THEN None
    ELSE IF Len(s) = 1 THEN Some(DigitValue(s[1]))
    ELSE LET hi == parse_u128(SubSeq(s, 1, Len(s) - 1))
         IN  IF hi = None THEN None
             ELSE Some(Unwrap(hi) * 10 + DigitValue(s[Len(s)]))

\* The header row serde derives from the fields of PrimeRecord.
HeaderRow ==
    << <<"p", "r", "i", "m", "e">>,
       <<"s", "q", "u", "a", "r", "e", "d">>,
       <<"c", "u", "b", "e", "d">>,
       <<"t", "o", "_", "f", "o", "u", "r", "t", "h", "_", "p", "o", "w", "e", "r">> >>

\* ------------------------------------------------------------------ pure functions
\* (n as f64).sqrt() as u128: exact for every n below 2^52
sqrt_f64(n) == CHOOSE r \in 0..n : r * r <= n /\ (r + 1) * (r + 1) > n

\* BigInt::to_u128: None for a negative value (every value of the model is
\* far below 2^128)
to_u128(big_n) == IF big_n >= 0 THEN Some(big_n) ELSE None

is_prime_native_no_i_plus_2(n) ==
    IF n \in {0, 1} THEN FALSE
    ELSE IF n \in {2, 3} THEN TRUE
    ELSE IF n % 2 = 0 \/ n % 3 = 0 THEN FALSE
    ELSE LET limit == sqrt_f64(n) + 1
         IN  \A i \in {j \in 5..limit : (j - 5) % 6 = 0} : n % i # 0

\* is_prime, the branch for a value that fits u128
is_prime_native(n) ==
    IF n \in {0, 1} THEN FALSE
    ELSE IF n \in {2, 3} THEN TRUE
    ELSE IF n % 2 = 0 \/ n % 3 = 0 THEN FALSE
    ELSE LET limit == sqrt_f64(n) + 1
         IN  \A i \in {j \in 5..limit : (j - 5) % 6 = 0} :
                 n % i # 0 /\ n % (i + 2) # 0

RECURSIVE bigint_loop_strict(_, _)
bigint_loop_strict(big_n, i) ==
    IF i * i >= big_n THEN TRUE
    ELSE IF big_n % i = 0 \/ big_n % (i + 2) = 0 THEN FALSE
    ELSE bigint_loop_strict(big_n, i + 6)

RECURSIVE bigint_loop(_, _)
\* the while loop of the BigInt branch, from divisor i
bigint_loop(big_n, i) ==
    IF i * i > big_n THEN TRUE
    ELSE IF big_n % i = 0 \/ big_n % (i + 2) = 0 THEN FALSE
    ELSE bigint_loop(big_n, i + 6)

\* is_prime, the branch for a value that does not fit u128
is_prime_bigint(big_n) ==
    IF big_n <= 1 \/ big_n = 2 \/ big_n = 3 THEN big_n > 1
    ELSE IF big_n % 2 = 0 \/ big_n % 3 = 0 THEN FALSE
    ELSE bigint_loop(big_n, 5)

is_prime(big_n) ==
    IF to_u128(big_n) # None THEN is_prime_native(Unwrap(to_u128(big_n)))
    ELSE is_prime_bigint(big_n)

\* u128::to_bigint never fails
to_bigint(n) == Some(n)

\* the powers computed in the native width, wrapping at its end
calculate_powers_wrapping(n) ==
    LET w == MaxArg + 1
        squared == (n * n) % w
        cubed == (squared * n) % w
        to_fourth_power == (squared * squared) % w
    IN  Some(<<squared, cubed, to_fourth_power>>)

\* calculate_powers: None, or Some of (squared, cubed, to_fourth_power)
calculate_powers(n) ==
    IF to_bigint(n) = None THEN None
    ELSE LET big_n == Unwrap(to_bigint(n))
             squared == big_n * big_n
             cubed == squared * big_n
             to_fourth_power == squared * squared
         IN  Some(<<squared, cubed, to_fourth_power>>)

\* The PrimeRecord that flush_to_csv and write_to_csv build from a buffered
\* entry <<prime, <<squared, cubed, to_fourth_power>>>>.
PrimeRecord(entry) ==
    [prime |-> entry[1],
     squared |-> to_str_radix_10(entry[2][1]),
     cubed |-> to_str_radix_10(entry[2][2]),
     to_fourth_power |-> to_str_radix_10(entry[2][3])]

\* The row csv::Writer::serialize writes for a PrimeRecord.
SerializeRow(record) ==
    <<to_str_radix_10(record.prime), record.squared, record.cubed,
      record.to_fourth_power>>

\* ------------------------------------------------------------------ configuration
\* lines 107-109: the --cpus value, or num_cpus::get() - 1 without one
NumCpus(cpus_arg, host_cpus) ==
    IF cpus_arg # NoArg THEN cpus_arg ELSE host_cpus - 1

\* line 112
ThreadCount(num_cpus) == IF num_cpus > 1 THEN num_cpus - 1 ELSE 1

\* the message of the first startup step that panics, "" when none does
StartupPanic(fetch_ok, cpus_arg, start_arg, end_arg) ==
    IF ~fetch_ok THEN "Failed to fetch the range"
    ELSE IF cpus_arg = BadArg THEN "Invalid number of CPUs"
    ELSE IF start_arg = BadArg THEN "Invalid start value"
    ELSE IF end_arg = BadArg THEN "Invalid end value"
    ELSE ""

FilterOddOnly(s, e) == {n \in Range(s, e) : n % 2 = 1}

FilterEvensToo(s, e) == Range(s, e)

\* lines 137-146: the candidates filter_map lets through
Filter(s, e) == {n \in Range(s, e) : n % 2 = 1 \/ n = 2}

\* ------------------------------------------------------------------ buffer and sink
MutexAlwaysFree(holder) == TRUE

\* Mutex::lock returns once no thread holds the guard
MutexFree(holder) == holder = NoThread

ShouldFlushAbove(len) == len > FLUSH_THRESHOLD

\* line 155
ShouldFlush(len) == len >= FLUSH_THRESHOLD

ClearKeepsLast(storage) ==
    IF storage = <<>> THEN <<>> ELSE <<storage[Len(storage)]>>

\* line 245: temp_storage.clear()
Clear(storage) == <<>>

MutexAfterPanicReleased(holder) == NoThread

\* a MutexGuard dropped while its thread panics poisons the mutex, and
\* lock().unwrap() panics on a poisoned mutex
MutexAfterPanic(holder) == Poisoned

DrainAlways(storage) == TRUE

DrainUnlessFull(storage) == Len(storage) < FLUSH_THRESHOLD

\* line 167: !storage.is_empty()
DrainNeeded(storage) == storage # <<>>

TruncateAndWrite(rows, more) == more

\* lines 228-232 and 251-255: the file is opened with append(true), so what
\* is written goes behind the rows it holds
AppendRows(rows, more) == rows \o more

RecordAtReversed(storage, idx) == storage[Len(storage) + 1 - idx]

\* line 234: temp_storage.iter() yields the entries from the first on
RecordAt(storage, idx) == storage[idx]

\* A csv::Writer over the file opened for append: nothing buffered, the
\* header not yet written.
NewWriter == [buf |-> <<>>, header_written |-> FALSE, idx |-> 1]

\* csv::Writer::serialize of a struct: the first call of a writer puts the
\* header row before the record's row (has_headers is left at its default)
Serialize(w, record) ==
    [w EXCEPT !.buf = IF w.header_written
                         THEN Append(@, SerializeRow(record))
                         ELSE @ \o <<HeaderRow, SerializeRow(record)>>,
              !.header_written = TRUE]

RECURSIVE deserialize_rows(_, _)
\* the loop of read_csv_data from row i on: Some of the primes of the records
\* read, or None as soon as a row does not deserialize into a PrimeRecord
deserialize_rows(rows, i) ==
    IF i > Len(rows) THEN Some(<<>>)
    ELSE IF parse_u128(rows[i][1]) = None THEN None
    ELSE LET rest == deserialize_rows(rows, i + 1)
         IN  IF rest = None THEN None
             ELSE Some(<<Unwrap(parse_u128(rows[i][1]))>> \o Unwrap(rest))

\* read_csv_data: the reader takes the first row as the header
read_csv_data(rows) == deserialize_rows(rows, 2)

\* What an earlier run of the program left in the output file (a scan of
\* [2, 3] flushed by the final drain).
EarlierRun ==
    <<HeaderRow,
      SerializeRow(PrimeRecord(<<2, Unwrap(calculate_powers(2))>>)),
      SerializeRow(PrimeRecord(<<3, Unwrap(calculate_powers(3))>>))>>

\* ------------------------------------------------------------------ state
VARIABLES
    pc,                \* the position of every thread
    panic,             \* the message main panicked with, "" while it has not
    panicked,          \* the workers whose closure panicked inside for_each
    cpus, start, end,  \* the --cpus option, and the range after its defaults
    thread_count,      \* the size of the rayon pool, 0 before it is built
    candidates,        \* the filtered candidates no worker has taken yet
    cand,              \* the candidate each worker holds
    mutex,             \* the thread holding temp_storage's lock
    temp_storage,      \* the buffer: <<prime, <<squared, cubed, fourth>>>>
    primes_and_powers, \* the HashMap of line 127
    wtr,               \* the csv::Writer of each thread's flush_to_csv call
    file_exists, file, \* primes_and_powers.csv: its rows
    overflow_log,      \* the values "Overflow error" was printed for
    \* history variables
    file_at_start,     \* the rows of the file when the run began
    tested,            \* how often is_prime was applied to each value
    pushes,            \* the primes pushed to the buffer, in push order
    flushes,           \* the flush_to_csv calls, in call order
    call               \* PureSpec, CrossSpec: the last application of a pure
                       \* function

vars == <<pc, panic, panicked, cpus, start, end, thread_count, candidates, cand, mutex,
          temp_storage, primes_and_powers, wtr, file_exists, file,
          overflow_log, file_at_start, tested, pushes, flushes, call>>

config_vars == <<cpus, start, end, thread_count>>
history_vars == <<file_at_start, tested, pushes, flushes>>

Workers == 1..thread_count

Init ==
    /\ pc = [t \in Threads |-> IF t = Main THEN "configure" ELSE "idle"]
    /\ panic = ""
    /\ panicked = {}
    /\ cpus = NoArg /\ start = 0 /\ end = 0 /\ thread_count = 0
    /\ candidates = {}
    /\ cand = [t \in Threads |-> NoCand]
    /\ mutex = NoThread
    /\ temp_storage = <<>>
    /\ primes_and_powers = {}
    /\ wtr = [t \in Threads |-> NewWriter]
    /\ \/ file_exists = FALSE /\ file = <<>>
       \/ file_exists = TRUE /\ file = EarlierRun
    /\ overflow_log = {}
    /\ file_at_start = file
    /\ tested = [n \in 0..MaxN |-> 0]
    /\ pushes = <<>>
    /\ flushes = <<>>
    /\ call = [fn |-> "none", arg |-> 0, prime |-> FALSE, fallback |-> FALSE,
               powers |-> <<>>, row |-> <<>>]

\* ------------------------------------------------------------------ main: startup
\* Lines 70-125: the default range is fetched, the options are parsed and
\* the pool is built. fetch_ok is the outcome of the request; cpus_arg,
\* start_arg and end_arg are the options as given (NoArg, BadArg or a
\* value), host_cpus is num_cpus::get(), and default_start / default_end is
\* the fetched range.
Configure ==
    /\ pc[Main] = "configure"
    /\ \E fetch_ok \in BOOLEAN, cpus_arg \in {NoArg, BadArg} \cup (0..MaxCpus),
          host_cpus \in 1..MaxCpus,
          start_arg \in {NoArg, BadArg} \cup (0..MaxN),
          end_arg \in {NoArg, BadArg} \cup (0..MaxN),
          default_start \in 0..MaxN, default_end \in 0..MaxN :
          \* what the run never reads is fixed, so that it is drawn once
          /\ cpus_arg # NoArg => host_cpus = 1
          /\ start_arg # NoArg => default_start = 0
          /\ end_arg # NoArg => default_end = 0
          /\ LET msg == StartupPanic(fetch_ok, cpus_arg, start_arg, end_arg)
             IN  IF msg # ""
                 THEN /\ panic' = msg
                      /\ pc' = [pc EXCEPT ![Main] = "aborted"]
                      /\ UNCHANGED config_vars
                 ELSE /\ cpus' = cpus_arg
                      /\ thread_count' = ThreadCount(NumCpus(cpus_arg, host_cpus))
                      /\ start' = IF start_arg # NoArg THEN start_arg
                                  ELSE default_start
                      /\ end' = IF end_arg # NoArg THEN end_arg ELSE default_end
                      /\ pc' = [pc EXCEPT ![Main] = "scatter"]
                      /\ UNCHANGED panic
    /\ UNCHANGED <<panicked, candidates, cand, mutex, temp_storage,
                   primes_and_powers, wtr, file_exists, file, overflow_log,
                   history_vars, call>>

\* Lines 137-147: the parallel iterator over start..=end behind filter_map
\* is handed to the pool.
Scatter ==
    /\ pc[Main] = "scatter"
    /\ candidates' = Filter(start, end)
    /\ pc' = [pc EXCEPT ![Main] = "join"]
    /\ UNCHANGED <<panic, panicked, config_vars, cand, mutex, temp_storage,
                   primes_and_powers, wtr, file_exists, file, overflow_log,
                   history_vars, call>>

\* ------------------------------------------------------------------ workers
\* Lines 147-150 and 158-160: the pool hands one of the candidates that are
\* left to an idle worker, which runs the closure of for_each on it up to
\* the lock.
ForEach(w) ==
    /\ pc[Main] = "join"
    /\ w \in Workers
    /\ pc[w] = "idle"
    /\ \E n \in candidates :
          /\ candidates' = candidates \ {n}
          /\ tested' = [tested EXCEPT ![n] = @ + 1]
          /\ IF is_prime(n)
             THEN IF calculate_powers(n) # None
                  THEN /\ pc' = [pc EXCEPT ![w] = "lock"]
                       /\ cand' = [cand EXCEPT ![w] = n]
                       /\ UNCHANGED overflow_log
                  ELSE /\ overflow_log' = overflow_log \cup {n}
                       /\ UNCHANGED <<pc, cand>>
             ELSE UNCHANGED <<pc, cand, overflow_log>>
    /\ UNCHANGED <<panic, panicked, config_vars, mutex, temp_storage,
                   primes_and_powers, wtr, file_exists, file, file_at_start,
                   pushes, flushes, call>>

\* Lines 151 and 166: temp_storage.lock().unwrap()
Lock(t) ==
    /\ t \in Workers \cup {Main}
    /\ pc[t] = "lock"
    /\ MutexFree(mutex)
    /\ mutex' = t
    /\ pc' = [pc EXCEPT ![t] = IF t = Main THEN "drain" ELSE "push"]
    /\ UNCHANGED <<panic, panicked, config_vars, candidates, cand, temp_storage,
                   primes_and_powers, wtr, file_exists, file, overflow_log,
                   history_vars, call>>

\* Lines 152-157: the push and the test of the threshold.
Push(w) ==
    /\ w \in Workers
    /\ pc[w] = "push"
    /\ temp_storage' = Append(temp_storage,
                            <<cand[w], Unwrap(calculate_powers(cand[w]))>>)
    /\ pushes' = Append(pushes, cand[w])
    /\ IF ShouldFlush(Len(temp_storage'))
       THEN /\ pc' = [pc EXCEPT ![w] = "flush_to_csv"]
            /\ flushes' = Append(flushes, [kind |-> "threshold",
                                           pushes |-> Len(pushes'),
                                           primes |-> <<>>])
       ELSE /\ pc' = [pc EXCEPT ![w] = "unlock"]
            /\ UNCHANGED flushes
    /\ UNCHANGED <<panic, panicked, config_vars, candidates, cand, mutex,
                   primes_and_powers, wtr, file_exists, file, overflow_log,
                   file_at_start, tested, call>>

\* ------------------------------------------------------------------ flush_to_csv
\* Lines 228-232: the file is opened for append, created when absent, and
\* wrapped in a new csv::Writer.
FlushOpen(t) ==
    /\ t \in Workers \cup {Main}
    /\ pc[t] = "flush_to_csv"
    /\ file_exists' = TRUE
    /\ wtr' = [wtr EXCEPT ![t] = NewWriter]
    /\ pc' = [pc EXCEPT ![t] = "serialize"]
    /\ UNCHANGED <<panic, panicked, config_vars, candidates, cand, mutex, temp_storage,
                   primes_and_powers, file, overflow_log, history_vars, call>>

\* Lines 234-242: one turn of the loop over temp_storage.
FlushSerialize(t) ==
    /\ t \in Workers \cup {Main}
    /\ pc[t] = "serialize"
    /\ wtr[t].idx <= Len(temp_storage)
    /\ wtr' = [wtr EXCEPT ![t] =
                  [Serialize(@, PrimeRecord(RecordAt(temp_storage, @.idx)))
                      EXCEPT !.idx = @ + 1]]
    /\ UNCHANGED <<pc, panic, panicked, config_vars, candidates, cand, mutex,
                   temp_storage, primes_and_powers, file_exists, file,
                   overflow_log, history_vars, call>>

\* the primes of the data rows among rows
RECURSIVE PrimesOf(_)
PrimesOf(rows) ==
    IF rows = <<>> THEN <<>>
    ELSE (IF rows[1] = HeaderRow THEN <<>> ELSE parse_u128(rows[1][1]))
         \o PrimesOf(Tail(rows))

\* Line 244: wtr.flush() hands the writer's buffered rows to the file.
FlushWrite(t) ==
    /\ t \in Workers \cup {Main}
    /\ pc[t] = "serialize"
    /\ wtr[t].idx > Len(temp_storage)
    /\ file' = AppendRows(file, wtr[t].buf)
    /\ wtr' = [wtr EXCEPT ![t].buf = <<>>]
    /\ flushes' = [k \in DOMAIN flushes |->
                      IF k = Len(flushes)
                      THEN [flushes[k] EXCEPT !.primes = PrimesOf(wtr[t].buf)]
                      ELSE flushes[k]]
    /\ pc' = [pc EXCEPT ![t] = "clear"]
    /\ UNCHANGED <<panic, panicked, config_vars, candidates, cand, mutex, temp_storage,
                   primes_and_powers, file_exists, overflow_log,
                   file_at_start, tested, pushes, call>>

\* Lines 245-247: the buffer is cleared and flush_to_csv returns, which
\* drops its writer.
FlushClear(t) ==
    /\ t \in Workers \cup {Main}
    /\ pc[t] = "clear"
    /\ temp_storage' = Clear(temp_storage)
    /\ wtr' = [wtr EXCEPT ![t] = NewWriter]
    /\ pc' = [pc EXCEPT ![t] = "unlock"]
    /\ UNCHANGED <<panic, panicked, config_vars, candidates, cand, mutex,
                   primes_and_powers, file_exists, file, overflow_log,
                   history_vars, call>>

\* Lines 157 and 170: the guard goes out of scope.
Unlock(t) ==
    /\ t \in Workers \cup {Main}
    /\ pc[t] = "unlock"
    /\ mutex' = IF mutex = t THEN NoThread ELSE mutex
    /\ pc' = [pc EXCEPT ![t] = IF t = Main THEN "write_to_csv" ELSE "idle"]
    /\ cand' = [cand EXCEPT ![t] = NoCand]
    /\ UNCHANGED <<panic, panicked, config_vars, candidates, temp_storage,
                   primes_and_powers, wtr, file_exists, file, overflow_log,
                   history_vars, call>>

\* ------------------------------------------------------------------ failures
\* Lines 156 and 168: flush_to_csv returned Err and expect panics in thread
\* t, which drops its guard: a worker's panic is kept by the pool until
\* for_each returns, main's ends the run. written is what reached the file.
FlushPanics(t, written) ==
    /\ file' = AppendRows(file, written)
    /\ flushes' = [k \in DOMAIN flushes |->
                      IF k = Len(flushes)
                      THEN [flushes[k] EXCEPT !.primes = PrimesOf(written)]
                      ELSE flushes[k]]
    /\ wtr' = [wtr EXCEPT ![t] = NewWriter]
    /\ mutex' = MutexAfterPanic(mutex)
    /\ cand' = [cand EXCEPT ![t] = NoCand]
    /\ IF t = Main
       THEN /\ panic' = "Failed to flush to CSV"
            /\ pc' = [pc EXCEPT ![t] = "aborted"]
            /\ UNCHANGED panicked
       ELSE /\ panicked' = panicked \cup {t}
            /\ pc' = [pc EXCEPT ![t] = "idle"]
            /\ UNCHANGED panic
    /\ UNCHANGED <<config_vars, candidates, temp_storage, primes_and_powers,
                   file_exists, overflow_log, file_at_start, tested, pushes,
                   call>>

\* Lines 228-232 with the `?`: the file cannot be opened.
FlushOpenFails(t) ==
    /\ t \in Workers \cup {Main}
    /\ pc[t] = "flush_to_csv"
    /\ FlushPanics(t, <<>>)

\* Lines 241 and 244 with the `?`: a write of the writer fails, in
\* serialize or in wtr.flush(); the rows buffered so far may have reached
\* the file in part (the writer is flushed once more when it is dropped).
FlushWriteFails(t) ==
    /\ t \in Workers \cup {Main}
    /\ pc[t] = "serialize"
    /\ \E k \in 0..Len(wtr[t].buf) : FlushPanics(t, SubSeq(wtr[t].buf, 1, k))

\* Line 151: lock() gives Err on the poisoned mutex and unwrap panics.
LockPoisoned(w) ==
    /\ w \in Workers
    /\ pc[w] = "lock"
    /\ mutex = Poisoned
    /\ panicked' = panicked \cup {w}
    /\ pc' = [pc EXCEPT ![w] = "idle"]
    /\ cand' = [cand EXCEPT ![w] = NoCand]
    /\ UNCHANGED <<panic, config_vars, candidates, mutex, temp_storage,
                   primes_and_powers, wtr, file_exists, file, overflow_log,
                   history_vars, call>>

\* ------------------------------------------------------------------ main: after the scan
ForEachReturnsEarly == candidates = {}

\* Line 162: for_each returns once every candidate was taken and every
\* worker is done with its closure.
ForEachReturns == candidates = {} /\ \A w \in Workers : pc[w] = "idle"

\* for_each returns to main, or resumes in main the panic of a worker.
Join ==
    /\ pc[Main] = "join"
    /\ ForEachReturns
    /\ IF panicked # {}
       THEN /\ panic' = "Failed to flush to CSV"
            /\ pc' = [pc EXCEPT ![Main] = "aborted"]
       ELSE /\ pc' = [pc EXCEPT ![Main] = "lock"]
            /\ UNCHANGED panic
    /\ UNCHANGED <<panicked, config_vars, candidates, cand, mutex, temp_storage,
                   primes_and_powers, wtr, file_exists, file, overflow_log,
                   history_vars, call>>

\* Lines 167-169: the final drain flushes what is left, if anything.
Drain ==
    /\ pc[Main] = "drain"
    /\ IF DrainNeeded(temp_storage)
       THEN /\ pc' = [pc EXCEPT ![Main] = "flush_to_csv"]
            /\ flushes' = Append(flushes, [kind |-> "drain",
                                           pushes |-> Len(pushes),
                                           primes |-> <<>>])
       ELSE /\ pc' = [pc EXCEPT ![Main] = "unlock"]
            /\ UNCHANGED flushes
    /\ UNCHANGED <<panic, panicked, config_vars, candidates, cand, mutex, temp_storage,
                   primes_and_powers, wtr, file_exists, file, overflow_log,
                   file_at_start, tested, pushes, call>>

\* the rows write_to_csv serializes for the entries of the map, in the
\* order the map iterates them
RECURSIVE MapRows(_)
MapRows(data) ==
    IF data = {} THEN <<>>
    ELSE LET entry == CHOOSE x \in data : TRUE
         IN  <<SerializeRow(PrimeRecord(entry))>> \o MapRows(data \ {entry})

WriteToCsvRowsWithHeader(data) == <<HeaderRow>> \o MapRows(data)

\* Lines 257-269: the rows write_to_csv hands to the file; its writer puts
\* the header before the first record it serializes, and nothing without one
WriteToCsvRows(data) ==
    IF data = {} THEN <<>> ELSE <<HeaderRow>> \o MapRows(data)

\* Lines 176-177: write_to_csv appends the rows of primes_and_powers.
WriteToCsv ==
    /\ pc[Main] = "write_to_csv"
    /\ file_exists' = TRUE
    /\ file' = AppendRows(file, WriteToCsvRows(primes_and_powers))
    /\ pc' = [pc EXCEPT ![Main] = "post_results"]
    /\ UNCHANGED <<panic, panicked, config_vars, candidates, cand, mutex, temp_storage,
                   primes_and_powers, wtr, overflow_log, history_vars, call>>

\* Lines 180-181: post_results reads the file back and posts the records;
\* post_ok is the outcome of the request.
PostResults ==
    /\ pc[Main] = "post_results"
    /\ \E post_ok \in BOOLEAN :
          IF read_csv_data(file) = None \/ ~post_ok
          THEN /\ panic' = "Failed to post results"
               /\ pc' = [pc EXCEPT ![Main] = "aborted"]
          ELSE /\ pc' = [pc EXCEPT ![Main] = "done"]
               /\ UNCHANGED panic
    /\ UNCHANGED <<panicked, config_vars, candidates, cand, mutex,
                   temp_storage, primes_and_powers, wtr, file_exists, file,
                   overflow_log, history_vars, call>>

\* ------------------------------------------------------------------ specification
Next ==
    \/ Configure
    \/ Scatter
    \/ \E w \in 1..MaxCpus : ForEach(w)
    \/ \E t \in Threads : Lock(t)
    \/ \E w \in 1..MaxCpus : Push(w)
    \/ \E t \in Threads : FlushOpen(t)
    \/ \E t \in Threads : FlushSerialize(t)
    \/ \E t \in Threads : FlushWrite(t)
    \/ \E t \in Threads : FlushClear(t)
    \/ \E t \in Threads : Unlock(t)
    \/ Join
    \/ Drain
    \/ WriteToCsv
    \/ PostResults

Spec == Init /\ [][Next]_vars

\* The run with its flushes failing or not.
IONext ==
    \/ Next
    \/ \E t \in Threads : FlushOpenFails(t)
    \/ \E t \in Threads : FlushWriteFails(t)
    \/ \E w \in 1..MaxCpus : LockPoisoned(w)

IOSpec == Init /\ [][IONext]_vars

\* The threads keep running: a step that can be taken is taken. Every
\* behaviour of the run is finite, so this is all the scheduling the
\* eventual flush of a record rests on.
FairSpec == Spec /\ WF_vars(Next)

FairIOSpec == IOSpec /\ WF_vars(IONext)

\* ------------------------------------------------------------------ the pure functions, applied
\* is_prime applied to BigInt::from(n), as line 148 calls it.
CallIsPrime(n) ==
    /\ call' = [fn |-> "is_prime", arg |-> n, prime |-> is_prime(n),
                fallback |-> FALSE, powers |-> <<>>, row |-> <<>>]
    /\ UNCHANGED <<pc, panic, panicked, config_vars, candidates, cand, mutex,
                   temp_storage, primes_and_powers, wtr, file_exists, file,
                   overflow_log, history_vars>>

\* calculate_powers applied to n, and the row flush_to_csv writes for the
\* result (lines 150-152 and 235-241).
CallCalculatePowers(n) ==
    /\ call' = [fn |-> "calculate_powers", arg |-> n, prime |-> FALSE,
                fallback |-> FALSE, powers |-> calculate_powers(n),
                row |-> IF calculate_powers(n) = None THEN <<>>
                        ELSE SerializeRow(PrimeRecord(
                                 <<n, Unwrap(calculate_powers(n))>>))]
    /\ UNCHANGED <<pc, panic, panicked, config_vars, candidates, cand, mutex,
                   temp_storage, primes_and_powers, wtr, file_exists, file,
                   overflow_log, history_vars>>

PureNext ==
    \/ \E n \in 0..MaxArg : CallIsPrime(n)
    \/ \E n \in 0..MaxArg : CallCalculatePowers(n)

PureSpec == Init /\ [][PureNext]_vars

\* Both branches of is_prime applied to the same n: the one is_prime takes
\* for a value that fits u128, and the BigInt one as if to_u128 had given
\* None. One application per behaviour.
CallBothBranches(n) ==
    /\ call.fn = "none"
    /\ call' = [fn |-> "is_prime_branches", arg |-> n,
                prime |-> is_prime_native(n), fallback |-> is_prime_bigint(n),
                powers |-> <<>>, row |-> <<>>]
    /\ UNCHANGED <<pc, panic, panicked, config_vars, candidates, cand, mutex,
                   temp_storage, primes_and_powers, wtr, file_exists, file,
                   overflow_log, history_vars>>

CrossNext == \E n \in 0..MaxCross : CallBothBranches(n)

CrossSpec == Init /\ [][CrossNext]_vars

\* ------------------------------------------------------------------ vocabulary of the claims
\* n is a prime number, by the definition
IsPrimeNumber(n) == n > 1 /\ \A d \in 2..(n - 1) : n % d # 0

RECURSIVE Pow(_, _)
Pow(n, k) == IF k = 0 THEN 1 ELSE n * Pow(n, k - 1)

PrimesInRange == {n \in Range(start, end) : IsPrimeNumber(n)}

\* the rows this run has appended to the file
RunRows == SubSeq(file, Len(file_at_start) + 1, Len(file))
IsDataRow(r) == r # HeaderRow
DataRows(rows) == SelectSeq(rows, IsDataRow)
IsHeaderRow(r) == r = HeaderRow
HeaderCount(rows) == Len(SelectSeq(rows, IsHeaderRow))

\* the number of data rows of this run whose prime field reads n
RowsFor(n) ==
    Cardinality({i \in 1..Len(RunRows) :
                    /\ RunRows[i] # HeaderRow
                    /\ parse_u128(RunRows[i][1]) = Some(n)})

Pushed(n) == \E i \in 1..Len(pushes) : pushes[i] = n

\* main is past the final drain
ScanFinished ==
    \/ pc[Main] \in {"write_to_csv", "post_results", "done"}
    \/ panic = "Failed to post results"

FlushCount(kind) ==
    Cardinality({k \in 1..Len(flushes) : flushes[k].kind = kind})

InFlush(t) == pc[t] \in {"flush_to_csv", "serialize", "clear"}
InCritical(t) == InFlush(t) \/ pc[t] \in {"push", "drain", "unlock"}

\* ------------------------------------------------------------------ claims
\* C1: once the scan is past the final drain, the data rows the run has
\* appended to the file are as many as the primes of [start, end], and every
\* value has one row if it is a prime of the range and none otherwise,
\* whatever the pool size and the interleaving.
C1_RowsArePrimesOfRange ==
    ScanFinished =>
        /\ Len(DataRows(RunRows)) = Cardinality(PrimesInRange)
        /\ \A n \in 0..MaxN :
              RowsFor(n) = IF n \in PrimesInRange THEN 1 ELSE 0

C1_Witness ==
    /\ ScanFinished
    /\ thread_count >= 2
    /\ start <= end
    /\ Cardinality(PrimesInRange) >= 4
    /\ FlushCount("threshold") >= 2

\* the pushes that fall to the k-th flush_to_csv call: those after the call
\* before it, up to the k-th call
BatchOf(k) ==
    SubSeq(pushes, IF k = 1 THEN 1 ELSE flushes[k - 1].pushes + 1,
           flushes[k].pushes)

RECURSIVE FlushedPrimes(_)
\* the primes the first k flushes have handed to the file, in order
FlushedPrimes(k) ==
    IF k = 0 THEN <<>> ELSE FlushedPrimes(k - 1) \o flushes[k].primes

\* Every flush writes nothing until its wtr.flush() and then exactly its
\* batch; a threshold flush is called by the push that completes its batch,
\* the drain by main past the join; and the rows of the run are those of the
\* flushes.
BatchesMatch ==
    /\ \A k \in 1..Len(flushes) :
          /\ flushes[k].primes \in {<<>>, BatchOf(k)}
          /\ k < Len(flushes) => flushes[k].primes = BatchOf(k)
          /\ flushes[k].kind = "threshold" =>
                Len(BatchOf(k)) = FLUSH_THRESHOLD
          /\ flushes[k].kind = "drain" =>
                /\ k = Len(flushes)
                /\ pc[Main] \notin {"configure", "scatter", "join", "lock"}
                /\ BatchOf(k) # <<>>
    /\ PrimesOf(RunRows) = FlushedPrimes(Len(flushes))

\* C2: a value has never more rows than one and none before it was pushed,
\* the rows of the run are the batches of its flushes (each record in the
\* batch of the first flush called at or after its push), and from some
\* point on every record that was pushed is in the file exactly once.
C2_FlushedExactlyOnce ==
    /\ [](\A n \in 0..MaxN : RowsFor(n) <= 1 /\ (RowsFor(n) = 1 => Pushed(n)))
    /\ []BatchesMatch
    /\ <>[](\A n \in 0..MaxN : Pushed(n) => RowsFor(n) = 1)

C2_Witness ==
    /\ ScanFinished
    /\ Len(pushes) = 3
    /\ Len(flushes) = 2
    /\ flushes[1].kind = "threshold" /\ flushes[1].primes = BatchOf(1)
    /\ flushes[2].kind = "drain" /\ flushes[2].primes = <<pushes[3]>>
    /\ \A i \in 1..3 : RowsFor(pushes[i]) = 1

\* thread t has just returned from a flush: it is about to drop the guard,
\* and the last flush is of its kind and has had no push after it
AfterFlush(t) ==
    /\ pc[t] = "unlock"
    /\ flushes # <<>>
    /\ flushes[Len(flushes)].kind = IF t = Main THEN "drain" ELSE "threshold"
    /\ flushes[Len(flushes)].pushes = Len(pushes)

\* C3: the buffer never holds more than FLUSH_THRESHOLD records, it holds
\* fewer whenever the lock is free, and it is empty right after a flush.
C3_BoundedBuffer ==
    /\ Len(temp_storage) <= FLUSH_THRESHOLD
    /\ mutex = NoThread => Len(temp_storage) < FLUSH_THRESHOLD
    /\ \A t \in Threads : AfterFlush(t) => Len(temp_storage) = 0

C3_Witness ==
    \E t \in Workers :
        /\ AfterFlush(t)
        /\ Len(pushes) = 2 * FLUSH_THRESHOLD
        /\ Len(flushes) = 2
        /\ temp_storage = <<>>

\* C4: past the final drain, with K records pushed, the threshold flushes
\* are floor(K / FLUSH_THRESHOLD) and the drain flushed once iff
\* K mod FLUSH_THRESHOLD is not 0.
C4_FlushCounts ==
    ScanFinished =>
        LET K == Len(pushes)
        IN  /\ FlushCount("threshold") = K \div FLUSH_THRESHOLD
            /\ FlushCount("drain") = IF K % FLUSH_THRESHOLD # 0 THEN 1 ELSE 0

C4_Witness ==
    /\ ScanFinished
    /\ thread_count >= 2
    /\ Len(pushes) > 0
    /\ Len(pushes) % FLUSH_THRESHOLD = 0
    /\ FlushCount("threshold") >= 1
    /\ FlushCount("drain") = 0

\* C5: a thread that pushes, drains or flushes holds the lock; at most one
\* flush is in flight; and while one is, no other thread is in the critical
\* section.
C5_MutualExclusion ==
    /\ \A t \in Threads : InCritical(t) => mutex = t
    /\ Cardinality({t \in Threads : InFlush(t)}) <= 1
    /\ \A t, u \in Threads : InFlush(t) /\ u # t => ~InCritical(u)

C5_Witness ==
    \E t, u \in Workers :
        /\ u # t
        /\ pc[t] = "serialize" /\ wtr[t].buf # <<>>
        /\ pc[u] = "lock"

\* C6: is_prime, on the branch for values that fit u128, is true exactly of
\* the primes: false of 0 and 1, true of 2 and 3, and above 3 true iff no d
\* with 2 <= d and d * d <= N divides N.
C6_IsPrimeNative ==
    call.fn = "is_prime" =>
        LET N == call.arg
        IN  /\ call.prime = IsPrimeNumber(N)
            /\ N \in {0, 1} => ~call.prime
            /\ N \in {2, 3} => call.prime
            /\ N > 3 => (call.prime <=>
                            \A d \in 2..N : d * d <= N => N % d # 0)

C6_Witness ==
    /\ call.fn = "is_prime"
    /\ call.arg = 49
    /\ ~call.prime

\* C7: for a prime N, calculate_powers gives Some of (N^2, N^3, N^4), each
\* the product of that many N, also where N^2 is beyond the largest argument;
\* and the row of prime 5 reads 5, 25, 125, 625.
C7_PowersExact ==
    (call.fn = "calculate_powers" /\ IsPrimeNumber(call.arg)) =>
        LET N == call.arg
        IN  /\ call.powers = Some(<<Pow(N, 2), Pow(N, 3), Pow(N, 4)>>)
            /\ N = 5 => call.row = << <<"5">>, <<"2", "5">>, <<"1", "2", "5">>,
                                      <<"6", "2", "5">> >>

C7_Witness ==
    /\ call.fn = "calculate_powers"
    /\ IsPrimeNumber(call.arg)
    /\ call.arg * call.arg > MaxArg
    /\ call.arg > 100
    /\ call.powers # None

\* C8: the run writes no header row into a file that existed before it, and
\* into a file it created it writes one header row, and only one, once it
\* writes a data row.
C8_HeaderOnce ==
    /\ file_at_start # <<>> => HeaderCount(RunRows) = 0
    /\ file_at_start = <<>> =>
          /\ HeaderCount(RunRows) <= 1
          /\ DataRows(RunRows) # <<>> => HeaderCount(RunRows) = 1

\* C9: with a --cpus value c >= 1 the pool is built with exactly c threads.
C9_ExactPoolSize ==
    (thread_count > 0 /\ cpus >= 1) => thread_count = cpus

\* C10: with start > end, or with a --cpus value below 1, the run is aborted
\* at startup: no candidate is tested and the run appends no row.
C10_InvalidConfigIsFatal ==
    (start > end \/ cpus = 0) =>
        /\ pc[Main] = "aborted"
        /\ \A n \in 0..MaxN : tested[n] = 0
        /\ RunRows = <<>>


\* a flush has failed: the closure of a worker has panicked, or main has
\* panicked in its drain
Failed == panicked # {} \/ panic = "Failed to flush to CSV"

\* C11: the flush that fails leaves the buffer as it was, with its records;
\* after it no push, no flush_to_csv call and no write to the file happens,
\* the buffer and the poisoned lock stay as they are, main is never past
\* the join unless aborted, and the run ends aborted.
C11_FlushFailureIsFatal ==
    /\ [][(~Failed /\ Failed') =>
             (temp_storage' = temp_storage /\ temp_storage # <<>>)]_vars
    /\ [][Failed =>
             /\ temp_storage' = temp_storage
             /\ pushes' = pushes
             /\ flushes' = flushes
             /\ file' = file
             /\ mutex' = mutex]_vars
    /\ [](Failed =>
             /\ mutex = Poisoned
             /\ pc[Main] \in {"join", "aborted"}
             /\ \A t \in Threads : ~InCritical(t))
    /\ [](Failed => <>[](pc[Main] = "aborted" /\ temp_storage # <<>>))

C11_Witness ==
    /\ pc[Main] = "aborted"
    /\ panic = "Failed to flush to CSV"
    /\ Cardinality(panicked) >= 2
    /\ Len(temp_storage) = FLUSH_THRESHOLD
    /\ HeaderCount(RunRows) = 1
    /\ Len(DataRows(RunRows)) = 1


\* rows is the beginning of more
IsPrefix(rows, more) ==
    Len(rows) <= Len(more) /\ SubSeq(more, 1, Len(rows)) = rows

\* the number of data rows of the whole file whose prime field reads n
FileRowsFor(n) ==
    Cardinality({i \in 1..Len(file) :
                    /\ file[i] # HeaderRow
                    /\ parse_u128(file[i][1]) = Some(n)})

\* C12: every step leaves the rows the file holds as the beginning of its new
\* content, also the steps of a flush that fails; so the rows of the earlier
\* run stay at the head of the file, and a scan of [2, 3] over the file an
\* earlier scan of [2, 3] left ends with two data rows for each of 2 and 3,
\* four in all.
C12_AppendOnly ==
    /\ [][IsPrefix(file, file')]_vars
    /\ [](IsPrefix(file_at_start, file))
    /\ []((ScanFinished /\ file_at_start = EarlierRun /\ start = 2 /\ end = 3) =>
             /\ FileRowsFor(2) = 2
             /\ FileRowsFor(3) = 2
             /\ Len(DataRows(file)) = 2 * Cardinality(PrimesInRange))

C12_Witness ==
    /\ ScanFinished
    /\ file_at_start = EarlierRun
    /\ start = 2 /\ end = 3
    /\ Len(DataRows(file)) = 4
    /\ Len(flushes) = 1


\* the number of entries of the sequence seq that are n
CountOf(seq, n) == Cardinality({i \in 1..Len(seq) : seq[i] = n})

\* C13: when main is about to post the results, read_csv_data of the output
\* file succeeds, and the records it returns are, value by value, as many as
\* the data rows the file holds.
C13_RoundTrip ==
    pc[Main] = "post_results" =>
        /\ read_csv_data(file) # None
        /\ \A n \in 0..MaxN :
              CountOf(Unwrap(read_csv_data(file)), n) = FileRowsFor(n)


\* C14: on every N of 0..MaxCross the branch of is_prime for values that fit
\* u128 and its BigInt branch return the same boolean.
C14_BranchesAgree ==
    call.fn = "is_prime_branches" => call.prime = call.fallback

C14_Witness ==
    /\ call.fn = "is_prime_branches"
    /\ call.arg = 89 * 89
    /\ sqrt_f64(call.arg) = 89
    /\ ~call.prime /\ ~call.fallback


\* the positions of main in the order of the program text
MainOrder ==
    <<"configure", "scatter", "join", "lock", "drain", "flush_to_csv",
      "serialize", "clear", "unlock", "write_to_csv", "post_results", "done">>
Position(p) == CHOOSE i \in 1..Len(MainOrder) : MainOrder[i] = p

\* main has left for_each: the parallel phase is over
ParallelPhaseOver ==
    thread_count > 0 /\ pc[Main] \notin {"configure", "scatter", "join"}

\* C15: with every flush succeeding, a scan that has started gets past the
\* final drain; once main has left for_each no candidate is left, every
\* candidate of the filter was tested and every worker is idle for good;
\* main only moves forward, so it locks and tests the buffer for the drain
\* once, and only after for_each; and past the drain the buffer is empty.
C15_Terminates ==
    /\ (pc[Main] = "scatter") ~> ScanFinished
    /\ [](ParallelPhaseOver =>
             /\ candidates = {}
             /\ \A n \in Filter(start, end) : tested[n] >= 1
             /\ \A w \in 1..MaxCpus : pc[w] = "idle" /\ cand[w] = NoCand)
    /\ [][(pc[Main] # "aborted" /\ pc[Main]' # pc[Main]) =>
             (pc[Main]' = "aborted" \/ Position(pc[Main]') > Position(pc[Main]))]_vars
    /\ [][pc[Main]' = "drain" => pc[Main] = "lock"]_vars
    /\ [](pc[Main] \in {"lock", "drain"} => FlushCount("drain") = 0)
    /\ [](FlushCount("drain") <= 1)
    /\ [](ScanFinished => temp_storage = <<>>)

C15_Witness ==
    /\ pc[Main] = "write_to_csv"
    /\ thread_count = 2
    /\ start = 0 /\ end = 5
    /\ FlushCount("threshold") = 1
    /\ FlushCount("drain") = 1
    /\ temp_storage = <<>>
    /\ \A n \in {1, 2, 3, 5} : tested[n] = 1


\* C16: the primes of the data rows the run has appended, in file order, are
\* the first of the pushes in push order, and so are they with the rows a
\* flush in flight has serialized behind them: each batch is in append
\* order, and the batches are in the order of their flushes.
C16_FileOrderIsPushOrder ==
    /\ IsPrefix(PrimesOf(RunRows), pushes)
    /\ \A t \in Threads :
          InFlush(t) => IsPrefix(PrimesOf(RunRows) \o PrimesOf(wtr[t].buf), pushes)

C16_Witness ==
    /\ Len(pushes) = 2 * FLUSH_THRESHOLD
    /\ FlushCount("threshold") = 2
    /\ PrimesOf(RunRows) = pushes
    /\ pushes[1] > pushes[2]
    /\ pushes[2] < pushes[3]


\* n is in the domain of the scan: in [start, end], and odd or 2
InDomain(n) == start <= n /\ n <= end /\ (n % 2 = 1 \/ n = 2)

\* the range was handed to the pool
Scattered == thread_count > 0 /\ pc[Main] # "scatter"

\* C17: once the range is handed to the pool, every n of the domain is
\* either still to be taken or was tested once, and no other n is; no value
\* is ever tested twice; when for_each has returned every n of the domain
\* was tested once; and an even n other than 2 is never tested, pushed or
\* written.
C17_FilteredOnce ==
    /\ \A n \in 0..MaxN :
          /\ tested[n] <= 1
          /\ Scattered =>
                tested[n] + (IF n \in candidates THEN 1 ELSE 0)
                    = (IF InDomain(n) THEN 1 ELSE 0)
          /\ ~Scattered => tested[n] = 0 /\ n \notin candidates
          /\ ParallelPhaseOver => tested[n] = (IF InDomain(n) THEN 1 ELSE 0)
          /\ (n % 2 = 0 /\ n # 2) =>
                /\ tested[n] = 0
                /\ ~Pushed(n)
                /\ RowsFor(n) = 0
                /\ \A w \in 1..MaxCpus : cand[w] # n

C17_Witness ==
    /\ ParallelPhaseOver
    /\ thread_count = 2
    /\ start = 2 /\ end = MaxN
    /\ tested[start] = 1 /\ tested[end] = 1
    /\ tested[4] = 0 /\ tested[6] = 0
    /\ Len(pushes) = 4


\* C18: a run over a range without a prime never pushes, never calls
\* flush_to_csv (main finds the buffer empty and skips the drain), leaves the
\* file with the rows it had, and does not panic unless the request of
\* post_results fails: the file is read back without error.
C18_NoPrimeNoRows ==
    (thread_count > 0 /\ PrimesInRange = {}) =>
        /\ pushes = <<>>
        /\ flushes = <<>>
        /\ \A t \in Threads : ~InFlush(t)
        /\ RunRows = <<>> /\ file = file_at_start
        /\ temp_storage = <<>>
        /\ panic # "" => (panic = "Failed to post results"
                             /\ read_csv_data(file) # None)

C18_Witness ==
    /\ pc[Main] = "done"
    /\ start = 1 /\ end = 1
    /\ tested[1] = 1
    /\ file_at_start = <<>> /\ file = <<>>
    /\ flushes = <<>>


\* C20: the map primes_and_powers is empty in every state; the step of
\* write_to_csv leaves the file as it is; and past it every value has as
\* many rows as it was pushed times, none twice.
C20_MapStaysEmpty ==
    /\ [](primes_and_powers = {})
    /\ [][(pc[Main] = "write_to_csv" /\ pc[Main]' # "write_to_csv") =>
             (pc[Main]' = "post_results" /\ file' = file)]_vars
    /\ [](pc[Main] \in {"post_results", "done"} =>
             \A n \in 0..MaxN : RowsFor(n) = CountOf(pushes, n) /\ RowsFor(n) <= 1)

C20_Witness ==
    /\ pc[Main] = "post_results"
    /\ primes_and_powers = {}
    /\ file_at_start = EarlierRun
    /\ Len(pushes) = 3
    /\ Len(DataRows(RunRows)) = 3
    /\ Len(RunRows) = 5

====
